---- MODULE Spec2Model ----
(***************************************************************************)
(* Model of src/main.py: the /api/analyze endpoint (api_analyze) and the   *)
(* analysis pipeline behind it (analyze_stock).  One behaviour is one      *)
(* request: snapshot fetch, row lookup, VWAP and bias, history fetch,      *)
(* series assembly, indicator computation, rule-based analysis, response.  *)
(*                                                                         *)
(* Numbers.  Provider prices, amounts, volumes and percentages are small   *)
(* integers.  A derived float (VWAP, bias) is an exact rational [n, d]     *)
(* with d > 0 in lowest terms; binary rounding error is not modelled.  An  *)
(* indicator value is <<x>> or NaN (<<>>): every ordered comparison with   *)
(* NaN is false, as in IEEE arithmetic.                                    *)
(*                                                                         *)
(* The provider (akshare) and the indicator library (pandas_ta) are not    *)
(* part of the source: what a call to them returns, or the message of the  *)
(* exception it raises, is chosen nondeterministically at the call.        *)
(***************************************************************************)
EXTENDS Integers, Sequences, FiniteSets

VARIABLES
  pc,                 \* position of the request inside api_analyze / analyze_stock
  symbol,             \* `code` of api_analyze, `symbol` of analyze_stock
  calls,              \* provider calls made so far, in order
  logs,               \* messages written by logging.error
  fault,              \* where the exception caught at line 160 was raised
  raised,             \* <<message>> of that exception, <<>> if none
  spot_df,            \* snapshot table returned by ak.stock_hk_spot_em()
  latest_price, latest_amount, latest_volume, latest_chg_pct, turnover_rate,
  vwap_price, vwap_bias,
  df_hist,            \* history as returned by ak.stock_hk_hist()
  today,              \* datetime.now().date()
  df_final,           \* assembled series
  latest,             \* df_final.iloc[-1] with its indicator columns
  prev_hist,          \* df_final.iloc[-2]['MACD_HIST']
  trend_status, downward_pressure, momentum_status,
  score, reasons, advice, risk_level, selling_pressure,
  data, error,        \* the pair analyze_stock returns
  response            \* the JSON body and HTTP status api_analyze returns

vars == <<pc, symbol, calls, logs, fault, raised, spot_df,
          latest_price, latest_amount, latest_volume, latest_chg_pct, turnover_rate,
          vwap_price, vwap_bias, df_hist, today, df_final, latest, prev_hist,
          trend_status, downward_pressure, momentum_status,
          score, reasons, advice, risk_level, selling_pressure,
          data, error, response>>

----------------------------------------------------------------------------
(* Bounds of the model *)

\* calendar dates are 1..MaxDate
MaxDate == 2
\* moving-average values drawn in the trend specification are 1..MaxMA or NaN
MaxMA == 3

----------------------------------------------------------------------------
(* Values *)

None == [none |-> TRUE]
NaN == <<>>
N(x) == <<x>>

\* a < b on indicator values (false when either is NaN)
Lt(a, b) == a # NaN /\ b # NaN /\ a[1] < b[1]
Gt(a, b) == a # NaN /\ b # NaN /\ a[1] > b[1]

Abs(x) == IF x < 0 THEN -x ELSE x

RECURSIVE Gcd(_, _)
Gcd(a, b) == IF b = 0 THEN a ELSE Gcd(b, a % b)

\* the rational n/d (d # 0), sign in the numerator, lowest terms
Rat(n, d) ==
  LET g == Gcd(Abs(n), Abs(d))
      s == IF d < 0 THEN -1 ELSE 1
  IN [n |-> (s * n) \div g, d |-> (s * d) \div g]

RSub(a, b) == Rat(a.n * b.d - b.n * a.d, a.d * b.d)
RMul(a, b) == Rat(a.n * b.n, a.d * b.d)
RDiv(a, b) == Rat(a.n * b.d, a.d * b.n)
RLt(a, b) == a.n * b.d < b.n * a.d
RSign(a) == IF a.n < 0 THEN -1 ELSE IF a.n > 0 THEN 1 ELSE 0

\* round(x, k): to k decimals, ties to even
Pow10(k) == IF k = 2 THEN 100 ELSE IF k = 3 THEN 1000 ELSE 10000
Round(x, k) ==
  LET m == x.n * Pow10(k)
      q == m \div x.d
      r == m % x.d
      up == 2 * r > x.d \/ (2 * r = x.d /\ q % 2 = 1)
  IN Rat(IF up THEN q + 1 ELSE q, Pow10(k))

----------------------------------------------------------------------------
(* Inputs: the request, the provider's answers, the library's answers *)

\* request.args.get('code', '02556'): the parameter is absent or given
DefaultCode == "02556"
RequestArgs == {<<>>, <<"02556">>, <<"00700">>}

\* messages an exception raised by a provider or library call may carry;
\* str(e) of an exception constructed without arguments is ""
ExcMessages == {"", "connection reset"}

NotFoundMessage == "symbol not found or wrong code (use a 5-digit code such as 02556)"
ZeroDivisionMessage == "float division by zero"
IndexErrorMessage == "single positional indexer is out-of-bounds"

Prices == {0, 97, 103}
Amounts == {-200, 0, 200}
Volumes == {0, 2}
ChgPcts == {-4, -3, 0}
Turnovers == {1, 2}
HistVolumes == {1, 3}

\* columns of the snapshot table; the turnover column is optional
BaseColumns == {"code", "price", "amount", "volume", "chg"}
ColumnSets == {BaseColumns, BaseColumns \cup {"turnover"}}

\* rows of a snapshot table with the given columns
SpotRows(cols) ==
  IF "turnover" \in cols
    THEN [code : {DefaultCode}, price : Prices, amount : Amounts, volume : Volumes,
          chg : ChgPcts, turnover : Turnovers]
    ELSE [code : {DefaultCode}, price : Prices, amount : Amounts, volume : Volumes,
          chg : ChgPcts]

\* snapshot tables: no row, or one row for the listed instrument
SpotTables ==
  UNION {{[columns |-> cols, rows |-> <<>>]}
           \cup {[columns |-> cols, rows |-> <<r>>] : r \in SpotRows(cols)} :
         cols \in ColumnSets}

Dates == 1..MaxDate

\* daily bars, one per trading day, in date order
HistBar(d, v) ==
  [date |-> d, open |-> 99, high |-> 101, low |-> 98, close |-> 100, volume |-> v]

DateSeqs ==
  {s \in UNION {[1..n -> Dates] : n \in 0..MaxDate} :
     \A i, j \in DOMAIN s : i < j => s[i] < s[j]}

Histories ==
  UNION {{[i \in DOMAIN ds |-> HistBar(ds[i], vs[i])] : vs \in [DOMAIN ds -> HistVolumes]} :
           ds \in DateSeqs}

\* last row of the indicator frame as the library may return it
MATriples == {<<N(8), N(9), N(10)>>, <<N(10), N(9), N(8)>>, <<NaN, NaN, NaN>>}
RSIValues == {NaN, N(15), N(25)}
\* <<MACD, MACD_SIGNAL, MACD_HIST, MACD_HIST of the previous row>>
MACDTuples == {<<N(0), N(1), N(-1), N(0)>>, <<N(2), N(1), N(1), N(2)>>,
               <<N(2), N(1), N(1), N(0)>>, <<NaN, NaN, NaN, NaN>>}

Frame(ma, rsi, macd) ==
  [RSI_6 |-> rsi, MA_5 |-> ma[1], MA_10 |-> ma[2], MA_20 |-> ma[3], MA_60 |-> NaN,
   MACD |-> macd[1], MACD_SIGNAL |-> macd[2], MACD_HIST |-> macd[3]]

----------------------------------------------------------------------------
(* analyze_stock, step by step *)

\* the lookup without its filter on the code column
TargetRowUnfiltered(df, sym) == df

\* spot_df[spot_df['code'] == symbol]
TargetRow(df, sym) ==
  [columns |-> df.columns, rows |-> SelectSeq(df.rows, LAMBDA r : r.code = sym)]

\* target_row.empty
IsEmpty(df) == Len(df.rows) = 0

\* float(target_row.iloc[0]['turnover']) if the column exists else 0
TurnoverRate(target) ==
  IF "turnover" \in target.columns THEN target.rows[1].turnover ELSE 0

\* amount / volume when volume > 0, else the latest price
Vwap(price, amount, volume) ==
  IF volume > 0 THEN Rat(amount, volume) ELSE Rat(price, 1)

\* the division by vwap_price raises ZeroDivisionError when it is 0.0
BiasRaises(vwap) == vwap.n = 0

\* ((latest_price - vwap_price) / vwap_price) * 100
Bias(price, vwap) == RMul(RDiv(RSub(Rat(price, 1), vwap), vwap), Rat(100, 1))

\* drop the last bar when it is dated today
DropToday(hist, t) ==
  IF Len(hist) # 0 /\ hist[Len(hist)].date = t
    THEN SubSeq(hist, 1, Len(hist) - 1)
    ELSE hist

\* the synthetic row of today
NewRow(t, price, volume) ==
  [date |-> t, open |-> price, high |-> price, low |-> price, close |-> price,
   volume |-> volume]

\* pd.concat([df_hist, new_row])
Assemble(hist, t, price, volume) == Append(DropToday(hist, t), NewRow(t, price, volume))

TrendBear == [mark |-> "down", text |-> "bearish alignment"]
TrendBull == [mark |-> "up", text |-> "bullish alignment"]
TrendFlat == [mark |-> "flat", text |-> "consolidating"]
EmptyLabel == [mark |-> "", text |-> ""]

\* the trend with ties counted as aligned
TrendNonStrict(row) ==
  IF ~Gt(row.MA_5, row.MA_10) /\ ~Gt(row.MA_10, row.MA_20)
     /\ row.MA_5 # NaN /\ row.MA_10 # NaN /\ row.MA_20 # NaN THEN TrendBear
  ELSE IF Gt(row.MA_5, row.MA_10) /\ Gt(row.MA_10, row.MA_20) THEN TrendBull
  ELSE TrendFlat

\* A. trend
Trend(row) ==
  IF Lt(row.MA_5, row.MA_10) /\ Lt(row.MA_10, row.MA_20) THEN TrendBear
  ELSE IF Gt(row.MA_5, row.MA_10) /\ Gt(row.MA_10, row.MA_20) THEN TrendBull
  ELSE TrendFlat

DownwardPressure(row) ==
  IF Lt(row.MA_5, row.MA_10) /\ Lt(row.MA_10, row.MA_20) THEN "very high"
  ELSE IF Gt(row.MA_5, row.MA_10) /\ Gt(row.MA_10, row.MA_20) THEN "low"
  ELSE "medium"

\* B. momentum; line 99 reads the previous row only in its own branch
MomentumReadsPrev(row) ==
  /\ ~(Lt(row.MACD_HIST, N(0)) /\ Lt(row.MACD, row.MACD_SIGNAL))
  /\ Gt(row.MACD_HIST, N(0))

Momentum(row, prev) ==
  IF Lt(row.MACD_HIST, N(0)) /\ Lt(row.MACD, row.MACD_SIGNAL) THEN "bearish momentum strengthening"
  ELSE IF Gt(row.MACD_HIST, N(0)) /\ Lt(row.MACD_HIST, prev) THEN "bullish momentum fading"
  ELSE IF Gt(row.MACD_HIST, N(0)) THEN "bullish dominant"
  ELSE "momentum unclear"

\* trend_status.startswith(the falling-chart mark)
StartsWithDown(trend) == trend.mark = "down"

BiasThreshold == Rat(-5, 2)
RsiThreshold == 20
BiasPoints == 3
RsiPoints == 2
TrendPenalty == 2
BuyScore == 3
WatchScore == 1

\* C. score, accumulated rule by rule from 0
ScoreAfterBias(bias) == IF RLt(bias, BiasThreshold) THEN 0 + BiasPoints ELSE 0
ScoreAfterRsi(s, row) == IF Lt(row.RSI_6, N(RsiThreshold)) THEN s + RsiPoints ELSE s
ScoreWithoutPenalty(s, trend) == s
ScoreAfterTrend(s, trend) == IF StartsWithDown(trend) THEN s - TrendPenalty ELSE s
Score(bias, row, trend) ==
  ScoreAfterTrend(ScoreAfterRsi(ScoreAfterBias(bias), row), trend)

Reasons(bias, row) ==
  (IF RLt(bias, BiasThreshold) THEN <<"intraday oversold">> ELSE <<>>)
  \o (IF Lt(row.RSI_6, N(RsiThreshold)) THEN <<"RSI oversold">> ELSE <<>>)

RiskLevel(trend) == IF StartsWithDown(trend) THEN "high (counter-trend)" ELSE "medium"

Advice(s) ==
  IF s >= BuyScore THEN "aggressive buy (rebound bet)"
  ELSE IF s >= WatchScore THEN "watch closely"
  ELSE "avoid/stay out"

PanicChg == -3
PanicTurnover == 1

\* D. selling pressure; line 133 reads the previous row only in its own branch
PressureReadsPrev(chg, turnover) ==
  ~(chg < PanicChg /\ turnover > PanicTurnover) /\ chg < 0

\* the two pressure rules in the opposite order
SellingPressureSwapped(chg, turnover, volume, prevVolume) ==
  IF chg < 0 /\ volume < prevVolume THEN "drift down, no volume"
  ELSE IF chg < PanicChg /\ turnover > PanicTurnover THEN "panic selling"
  ELSE "normal"

SellingPressure(chg, turnover, volume, prevVolume) ==
  IF chg < PanicChg /\ turnover > PanicTurnover THEN "panic selling"
  ELSE IF chg < 0 /\ volume < prevVolume THEN "drift down, no volume"
  ELSE "normal"

\* " + ".join(reasons) if reasons else the no-signal text
JoinReasons(rs) == IF rs # <<>> THEN rs ELSE <<"no special signal">>

Result(sym, price, chg, bias, row, trend, momentum, pressure, downside, adv, risk, rs) ==
  [symbol |-> sym,
   price |-> price,
   change_pct |-> chg,
   vwap_bias |-> Round(bias, 2),
   indicators |-> [rsi |-> row.RSI_6, ma20 |-> row.MA_20, macd_bar |-> row.MACD_HIST],
   analysis |-> [trend |-> trend, momentum |-> momentum, pressure |-> pressure,
                 downside_risk |-> downside],
   strategy |-> [advice |-> adv, risk |-> risk, reasons |-> JoinReasons(rs)]]

\* `if error:` in api_analyze: None and "" are both falsy
Truthy(e) == e # <<>> /\ e[1] # ""

ErrorResponse(e) == [status |-> "error", message |-> e[1], http |-> 500]
SuccessResponse(d) == [status |-> "success", data |-> d, http |-> 200]

----------------------------------------------------------------------------
(* The request as a state machine *)

snapVars == <<latest_price, latest_amount, latest_volume, latest_chg_pct, turnover_rate>>
vwapVars == <<vwap_price, vwap_bias>>
seriesVars == <<df_hist, today, df_final>>
frameVars == <<latest, prev_hist>>
analysisVars == <<trend_status, downward_pressure, momentum_status,
                  score, reasons, advice, risk_level, selling_pressure>>
excVars == <<logs, fault, raised>>

Init ==
  /\ pc = "idle"
  /\ symbol = ""
  /\ calls = <<>>
  /\ logs = <<>>
  /\ fault = "none"
  /\ raised = <<>>
  /\ spot_df = None
  /\ latest_price = 0 /\ latest_amount = 0 /\ latest_volume = 0
  /\ latest_chg_pct = 0 /\ turnover_rate = 0
  /\ vwap_price = None /\ vwap_bias = None
  /\ df_hist = <<>> /\ today = 0 /\ df_final = <<>>
  /\ latest = None /\ prev_hist = NaN
  /\ trend_status = EmptyLabel /\ downward_pressure = "" /\ momentum_status = ""
  /\ score = 0 /\ reasons = <<>> /\ advice = "" /\ risk_level = ""
  /\ selling_pressure = ""
  /\ data = None /\ error = <<>>
  /\ response = None

\* a handler that calls the failed provider again instead of returning
ExceptRetry(where, msg) ==
  /\ logs' = Append(logs, <<"Error: ", msg>>)
  /\ fault' = where
  /\ raised' = <<msg>>
  /\ data' = None
  /\ error' = <<msg>>
  /\ pc' = IF where \in {"spot", "hist"} THEN where ELSE "respond"

\* except Exception as e: logging.error(f"Error: {e}"); return None, str(e)
Except(where, msg) ==
  /\ logs' = Append(logs, <<"Error: ", msg>>)
  /\ fault' = where
  /\ raised' = <<msg>>
  /\ data' = None
  /\ error' = <<msg>>
  /\ pc' = "respond"

\* return <d>, <e> from inside the try block
Return(d, e) ==
  /\ data' = d
  /\ error' = e
  /\ pc' = "respond"
  /\ UNCHANGED excVars

\* api_analyze reads the code and calls analyze_stock
Request ==
  /\ pc = "idle"
  /\ \E a \in RequestArgs : symbol' = IF a = <<>> THEN DefaultCode ELSE a[1]
  /\ pc' = "spot"
  /\ UNCHANGED <<calls, excVars, spot_df, snapVars, vwapVars, seriesVars, frameVars,
                 analysisVars, data, error, response>>

\* spot_df = ak.stock_hk_spot_em()
FetchSpot ==
  /\ pc = "spot"
  /\ calls' = Append(calls, "spot")
  /\ \/ /\ \E t \in SpotTables : spot_df' = t
        /\ pc' = "lookup"
        /\ UNCHANGED <<excVars, data, error>>
     \/ /\ \E m \in ExcMessages : Except("spot", m)
        /\ UNCHANGED spot_df
  /\ UNCHANGED <<symbol, snapVars, vwapVars, seriesVars, frameVars, analysisVars, response>>

\* the row lookup, the not-found return and the extraction of the live fields
Lookup ==
  /\ pc = "lookup"
  /\ LET target_row == TargetRow(spot_df, symbol) IN
       IF IsEmpty(target_row)
         THEN /\ Return(None, <<NotFoundMessage>>)
              /\ UNCHANGED snapVars
         ELSE /\ latest_price' = target_row.rows[1].price
              /\ latest_amount' = target_row.rows[1].amount
              /\ latest_volume' = target_row.rows[1].volume
              /\ latest_chg_pct' = target_row.rows[1].chg
              /\ turnover_rate' = TurnoverRate(target_row)
              /\ pc' = "vwap"
              /\ UNCHANGED <<excVars, data, error>>
  /\ UNCHANGED <<symbol, calls, spot_df, vwapVars, seriesVars, frameVars, analysisVars,
                 response>>

\* intraday VWAP and the bias of the price against it
ComputeVwap ==
  /\ pc = "vwap"
  /\ vwap_price' = Vwap(latest_price, latest_amount, latest_volume)
  /\ IF BiasRaises(vwap_price')
       THEN /\ Except("vwap", ZeroDivisionMessage)
            /\ UNCHANGED vwap_bias
       ELSE /\ vwap_bias' = Bias(latest_price, vwap_price')
            /\ pc' = "hist"
            /\ UNCHANGED <<excVars, data, error>>
  /\ UNCHANGED <<symbol, calls, spot_df, snapVars, seriesVars, frameVars, analysisVars,
                 response>>

\* df_hist = ak.stock_hk_hist(symbol=symbol, start_date=..., adjust="qfq")
FetchHist ==
  /\ pc = "hist"
  /\ calls' = Append(calls, "hist")
  /\ \/ /\ \E h \in Histories : df_hist' = h
        /\ pc' = "assemble"
        /\ UNCHANGED <<excVars, data, error>>
     \/ /\ \E m \in ExcMessages : Except("hist", m)
        /\ UNCHANGED df_hist
  /\ UNCHANGED <<symbol, spot_df, snapVars, vwapVars, today, df_final, frameVars,
                 analysisVars, response>>

\* today's duplicate is removed and the synthetic row of today appended
AssembleSeries ==
  /\ pc = "assemble"
  /\ \E t \in Dates :
       /\ today' = t
       /\ df_hist' = DropToday(df_hist, t)
       /\ df_final' = Assemble(df_hist, t, latest_price, latest_volume)
  /\ pc' = "indicators"
  /\ UNCHANGED <<symbol, calls, excVars, spot_df, snapVars, vwapVars, frameVars,
                 analysisVars, data, error, response>>

\* RSI, the moving averages and MACD from the library; latest = df_final.iloc[-1]
Indicators ==
  /\ pc = "indicators"
  /\ \/ /\ \E ma \in MATriples, rsi \in RSIValues, macd \in MACDTuples :
             /\ latest' = Frame(ma, rsi, macd)
             /\ prev_hist' = macd[4]
        /\ pc' = "analyse"
        /\ UNCHANGED <<excVars, data, error>>
     \/ /\ \E m \in ExcMessages : Except("indicators", m)
        /\ UNCHANGED frameVars
  /\ UNCHANGED <<symbol, calls, spot_df, snapVars, vwapVars, seriesVars, analysisVars,
                 response>>

\* the rule-based analysis, sections A to D, and the result
Analyse ==
  /\ pc = "analyse"
  /\ LET hasPrev == Len(df_final) >= 2
         trend == Trend(latest)
         downside == DownwardPressure(latest)
         momentum == Momentum(latest, prev_hist)
         s == Score(vwap_bias, latest, trend)
         rs == Reasons(vwap_bias, latest)
         adv == Advice(s)
         risk == RiskLevel(trend)
         \* df_final.iloc[-2]['volume']; read only when the row exists
         prevVolume == IF hasPrev THEN df_final[Len(df_final) - 1].volume ELSE 0
         pressure == SellingPressure(latest_chg_pct, turnover_rate, latest_volume, prevVolume)
     IN
       IF ~hasPrev /\ MomentumReadsPrev(latest)
         THEN \* IndexError at line 99
              /\ trend_status' = trend
              /\ downward_pressure' = downside
              /\ momentum_status' = ""
              /\ score' = 0 /\ reasons' = <<>> /\ advice' = ""
              /\ risk_level' = "medium"
              /\ selling_pressure' = ""
              /\ Except("analyse", IndexErrorMessage)
       ELSE IF ~hasPrev /\ PressureReadsPrev(latest_chg_pct, turnover_rate)
         THEN \* IndexError at line 133
              /\ trend_status' = trend
              /\ downward_pressure' = downside
              /\ momentum_status' = momentum
              /\ score' = s /\ reasons' = rs /\ advice' = adv
              /\ risk_level' = risk
              /\ selling_pressure' = "normal"
              /\ Except("analyse", IndexErrorMessage)
       ELSE   /\ trend_status' = trend
              /\ downward_pressure' = downside
              /\ momentum_status' = momentum
              /\ score' = s /\ reasons' = rs /\ advice' = adv
              /\ risk_level' = risk
              /\ selling_pressure' = pressure
              /\ Return(Result(symbol, latest_price, latest_chg_pct, vwap_bias, latest,
                               trend, momentum, pressure, downside, adv, risk, rs),
                        <<>>)
  /\ UNCHANGED <<symbol, calls, spot_df, snapVars, vwapVars, seriesVars, frameVars,
                 response>>

\* api_analyze turns the pair into the JSON response
Respond ==
  /\ pc = "respond"
  /\ response' = IF Truthy(error) THEN ErrorResponse(error) ELSE SuccessResponse(data)
  /\ pc' = "done"
  /\ UNCHANGED <<symbol, calls, excVars, spot_df, snapVars, vwapVars, seriesVars,
                 frameVars, analysisVars, data, error>>

Next ==
  \/ Request
  \/ FetchSpot
  \/ Lookup
  \/ ComputeVwap
  \/ FetchHist
  \/ AssembleSeries
  \/ Indicators
  \/ Analyse
  \/ Respond

Spec == Init /\ [][Next]_vars

----------------------------------------------------------------------------
(* The trend rule on its own: every triple of moving averages *)

MAValues == {NaN} \cup {N(i) : i \in 1..MaxMA}

InitTrend ==
  /\ pc = "trend"
  /\ symbol = DefaultCode
  /\ calls = <<>>
  /\ logs = <<>>
  /\ fault = "none"
  /\ raised = <<>>
  /\ spot_df = None
  /\ latest_price = 0 /\ latest_amount = 0 /\ latest_volume = 0
  /\ latest_chg_pct = 0 /\ turnover_rate = 0
  /\ vwap_price = None /\ vwap_bias = None
  /\ df_hist = <<>> /\ today = 0 /\ df_final = <<>>
  /\ \E a \in MAValues, b \in MAValues, c \in MAValues :
       latest = Frame(<<a, b, c>>, NaN, <<NaN, NaN, NaN, NaN>>)
  /\ prev_hist = NaN
  /\ trend_status = EmptyLabel /\ downward_pressure = "" /\ momentum_status = ""
  /\ score = 0 /\ reasons = <<>> /\ advice = "" /\ risk_level = ""
  /\ selling_pressure = ""
  /\ data = None /\ error = <<>>
  /\ response = None

\* section A of the analysis applied to the latest row
ClassifyTrend ==
  /\ pc = "trend"
  /\ trend_status' = Trend(latest)
  /\ downward_pressure' = DownwardPressure(latest)
  /\ pc' = "trended"
  /\ UNCHANGED <<symbol, calls, excVars, spot_df, snapVars, vwapVars, seriesVars,
                 frameVars, momentum_status, score, reasons, advice, risk_level,
                 selling_pressure, data, error, response>>

NextTrend == ClassifyTrend

SpecTrend == InitTrend /\ [][NextTrend]_vars

----------------------------------------------------------------------------
(* Properties *)

\* the request has been answered
Answered == pc = "done"

\* the snapshot was fetched and no row of it carries the requested code
SymbolAbsent ==
  /\ spot_df # None
  /\ \A i \in DOMAIN spot_df.rows : spot_df.rows[i].code # symbol

\* analyze_stock returned a result
Analysed == pc \in {"respond", "done"} /\ data # None

ResultKeys ==
  {"symbol", "price", "change_pct", "vwap_bias", "indicators", "analysis", "strategy"}

\* C1: whenever a provider call (snapshot or history fetch) raised, whatever the
\* message of the exception, the response has status "error", its message is the
\* exception's message, and exactly one error log entry was written.
C1_ProviderErrorSurfaced ==
  (Answered /\ fault \in {"spot", "hist"}) =>
    /\ response.status = "error"
    /\ response.message = raised[1]
    /\ Len(logs) = 1

\* C2: a code that matches no row of the snapshot table gives an error response
\* with the not-found message, nothing is raised, and the request short-circuits:
\* the history fetch is never called and no indicator or score is computed.
C2_NotFoundShortCircuits ==
  (SymbolAbsent /\ pc # "lookup") =>
    /\ pc \in {"respond", "done"}
    /\ pc = "respond" => ENABLED Respond
    /\ data = None /\ error = <<NotFoundMessage>>
    /\ fault = "none" /\ raised = <<>> /\ logs = <<>>
    /\ calls = <<"spot">>
    /\ vwap_price = None /\ df_final = <<>> /\ latest = None
    /\ trend_status = EmptyLabel /\ score = 0 /\ advice = ""
    /\ Answered =>
         /\ response.status = "error"
         /\ response.message = NotFoundMessage
         /\ "data" \notin DOMAIN response

C2_Witness ==
  /\ Answered /\ SymbolAbsent
  /\ Len(spot_df.rows) > 0
  /\ response.status = "error"

\* C3: every response is all-or-nothing: status "success" with a complete,
\* non-null result, or status "error" with a message and no data.
C3_AllOrNothing ==
  Answered =>
    \/ /\ response.status = "success"
       /\ DOMAIN response = {"status", "data", "http"}
       /\ response.data # None
       /\ DOMAIN response.data = ResultKeys
    \/ /\ response.status = "error"
       /\ DOMAIN response = {"status", "message", "http"}

\* C4: with a cumulative volume of 0, for every latest price, the VWAP is the
\* latest price, the bias is 0, and the VWAP/bias computation does not fail.
C4_ZeroVolumeBiasZero ==
  (vwap_price # None /\ latest_volume = 0) =>
    /\ vwap_price = [n |-> latest_price, d |-> 1]
    /\ fault # "vwap"
    /\ vwap_bias # None
    /\ vwap_bias.n = 0

\* C5: with a cumulative volume above 0, for every amount, the VWAP is
\* amount / volume and the sign of the bias is the sign of (price - VWAP).
C5_BiasSignFollowsPrice ==
  (vwap_price # None /\ latest_volume > 0) =>
    /\ vwap_price.n * latest_volume = latest_amount * vwap_price.d
    /\ vwap_bias # None
    /\ LET diff == latest_price * vwap_price.d - vwap_price.n
       IN /\ vwap_bias.n < 0 <=> diff < 0
          /\ vwap_bias.n = 0 <=> diff = 0
          /\ vwap_bias.n > 0 <=> diff > 0

\* C6: the assembled series holds exactly one row per calendar date, its last
\* row is the synthetic row of today (open = high = low = close = latest price,
\* volume = snapshot volume), and no provider bar dated today remains in it.
C6_OneRowPerDate ==
  df_final # <<>> =>
    LET n == Len(df_final) IN
    /\ \A i, j \in 1..n : i # j => df_final[i].date # df_final[j].date
    /\ df_final[n] = [date |-> today, open |-> latest_price, high |-> latest_price,
                      low |-> latest_price, close |-> latest_price,
                      volume |-> latest_volume]
    /\ \A i \in 1..(n - 1) : df_final[i].date # today

\* the trend of the latest row is the bearish alignment
BearishTrend == trend_status.text = "bearish alignment"

\* C7: the score is (+3 if bias < -2.5) + (+2 if RSI6 < 20) + (-2 if bearish);
\* advice is aggressive buy iff score >= 3, watch closely iff 1 <= score < 3 and
\* avoid otherwise; risk is high (counter-trend) iff bearish, else medium.
\* bias = -3, RSI6 = 15 and a bearish trend give score 3, aggressive buy, high.
C7_ScoreAndAdvice ==
  Analysed =>
    LET biasLow == 2 * vwap_bias.n < -5 * vwap_bias.d
        rsiLow == latest.RSI_6 # NaN /\ latest.RSI_6[1] < 20
        expected == (IF biasLow THEN 3 ELSE 0) + (IF rsiLow THEN 2 ELSE 0)
                    + (IF BearishTrend THEN -2 ELSE 0)
        adv == data.strategy.advice
        risk == data.strategy.risk
    IN /\ score = expected
       /\ adv = "aggressive buy (rebound bet)" <=> score >= 3
       /\ adv = "watch closely" <=> (1 <= score /\ score < 3)
       /\ adv = "avoid/stay out" <=> score < 1
       /\ risk = "high (counter-trend)" <=> BearishTrend
       /\ risk = "medium" <=> ~BearishTrend
       /\ (vwap_bias = [n |-> -3, d |-> 1] /\ latest.RSI_6 = <<15>> /\ BearishTrend) =>
            /\ score = 3
            /\ adv = "aggressive buy (rebound bet)"
            /\ risk = "high (counter-trend)"

C7_Witness ==
  /\ Answered /\ data # None
  /\ vwap_bias = [n |-> -3, d |-> 1]
  /\ latest.RSI_6 = <<15>>
  /\ BearishTrend
  /\ score = 3
  /\ response.status = "success"
  /\ response.data.strategy.advice = "aggressive buy (rebound bet)"

\* C8: exactly one trend label is assigned for every triple (MA5, MA10, MA20):
\* bearish with the highest downside risk iff MA5 < MA10 < MA20, bullish with low
\* downside risk iff MA5 > MA10 > MA20, consolidating with medium downside risk
\* for every other ordering, ties and undefined values included; the downside
\* label is always set together with the trend label.
C8_TrendLabel ==
  pc = "trended" =>
    LET a == latest.MA_5
        b == latest.MA_10
        c == latest.MA_20
        defined == a # NaN /\ b # NaN /\ c # NaN
        rising == defined /\ a[1] < b[1] /\ b[1] < c[1]
        falling == defined /\ a[1] > b[1] /\ b[1] > c[1]
    IN /\ (trend_status.text = "bearish alignment" /\ downward_pressure = "very high")
            <=> rising
       /\ (trend_status.text = "bullish alignment" /\ downward_pressure = "low")
            <=> falling
       /\ (trend_status.text = "consolidating" /\ downward_pressure = "medium")
            <=> (~rising /\ ~falling)
       /\ trend_status.text \in {"bearish alignment", "bullish alignment", "consolidating"}
       /\ downward_pressure \in {"very high", "low", "medium"}

C8_Witness ==
  /\ pc = "trended"
  /\ latest.MA_5 = latest.MA_10
  /\ latest.MA_5 # NaN
  /\ latest.MA_20 # NaN
  /\ latest.MA_10[1] < latest.MA_20[1]
  /\ trend_status.text = "consolidating"

\* the requested code has a row in the fetched snapshot
SymbolListed ==
  /\ spot_df # None
  /\ \E i \in DOMAIN spot_df.rows : spot_df.rows[i].code = symbol

\* C9: within one request the snapshot fetch is called exactly once and before
\* any history fetch; the history fetch is called at most once and only after
\* the snapshot fetch succeeded and the symbol was found; when either call
\* fails no further provider call is made and the error is returned at once.
C9_CallOrder ==
  /\ calls \in {<<>>, <<"spot">>, <<"spot", "hist">>}
  /\ pc \notin {"idle", "spot"} => Len(calls) >= 1
  /\ Len(calls) = 2 => SymbolListed
  /\ fault = "spot" =>
       /\ calls = <<"spot">>
       /\ spot_df = None
       /\ pc \in {"respond", "done"}
       /\ data = None /\ error = raised
  /\ fault = "hist" =>
       /\ calls = <<"spot", "hist">>
       /\ df_final = <<>> /\ latest = None
       /\ pc \in {"respond", "done"}
       /\ data = None /\ error = raised

C9_Witness ==
  /\ Answered
  /\ fault = "hist"
  /\ calls = <<"spot", "hist">>
  /\ raised = <<"connection reset">>

\* C10: on a successful analysis the pressure label is panic selling iff
\* change% < -3 and turnover > 1; otherwise drift down iff change% < 0 and the
\* snapshot volume is below the volume of the bar just before the synthetic bar;
\* otherwise normal.  Without a turnover column panic selling is never reported.
C10_PressurePriority ==
  Analysed =>
    LET n == Len(df_final)
        panic == latest_chg_pct < -3 /\ turnover_rate > 1
        drift == /\ latest_chg_pct < 0
                 /\ n >= 2
                 /\ latest_volume < df_final[n - 1].volume
        label == data.analysis.pressure
    IN /\ label = "panic selling" <=> panic
       /\ label = "drift down, no volume" <=> (~panic /\ drift)
       /\ label = "normal" <=> (~panic /\ ~drift)
       /\ "turnover" \notin spot_df.columns =>
            (turnover_rate = 0 /\ label # "panic selling")

C10_Witness ==
  /\ Answered /\ data # None
  /\ latest_chg_pct < -3 /\ turnover_rate > 1
  /\ Len(df_final) >= 2
  /\ latest_volume < df_final[Len(df_final) - 1].volume
  /\ response.data.analysis.pressure = "panic selling"

====
